---- MODULE Spec2Model ----
(***************************************************************************)
(* Model of the inference / explanation orchestration of the Alzheimer-AI  *)
(* backend (src/backend/app.py): the /predict and /report handlers, the    *)
(* lazily loaded process-wide model, and the pure computations the         *)
(* handlers perform on the model output (softmax with temperature,         *)
(* arg-max, top-2 ranking, margin).  The functions the handlers call are   *)
(* modelled one call at a time in specifications of their own:             *)
(* SpecSaliency (heatmap normalisation, gradcam.py), SpecLayers (Grad-CAM  *)
(* layer search, gradcam.py), SpecOcclusion, SpecIG and SpecRoi            *)
(* (explanations.py).  SpecSrv interleaves the steps of concurrent         *)
(* requests on the globals MODEL and CLASS_NAMES (app.py).                 *)
(*                                                                         *)
(* Numbers.  Raw model outputs are integers 0..MaxRaw.  Probabilities are  *)
(* fixed-point integers in units of 1/10000.  exp is the fixed-point       *)
(* ExpH (argument in halves, result in units of 1/1000).                   *)
(* Vectors are functions on 0..n-1, so that indices are the source's.      *)
(***************************************************************************)
EXTENDS Integers, Sequences, FiniteSets, TLC

\* ------------------------------------------------------------------ bounds
\* the largest raw model output
MaxRaw == 1

\* ------------------------------------------------------- program constants
\* the class count the source assumes for its classifier; the model serves
\* classifiers of 1 .. NumClasses classes
NumClasses == 4

\* ------------------------------------------------------- vectors (0-based)
Len0(v) == Cardinality(DOMAIN v)

RECURSIVE SumUpTo(_, _)
SumUpTo(v, n) == IF n = 0 THEN 0 ELSE v[n - 1] + SumUpTo(v, n - 1)

SumVec(v) == SumUpTo(v, Len0(v))

MaxVec(v) == CHOOSE m \in {v[i] : i \in DOMAIN v} : \A j \in DOMAIN v : v[j] <= m

Vectors(n) == [0 .. n - 1 -> 0 .. MaxRaw]

\* ------------------------------------------------- environment (os.getenv)
TempEnvs == {"unset", "abc", "0", "2.0"}
ExplainEnvs == {"unset", "full", "FULL", "fast"}

GetEnv(value, default) == IF value = "unset" THEN default ELSE value

\* float(s): raises ValueError on text that is no number
FloatRaises(s) == s \notin {"1.0", "2.0", "0"}

FloatOf(s) == CASE s = "1.0" -> 1 [] s = "2.0" -> 2 [] s = "0" -> 0

\* app.py:131-134
TempScale(env) ==
    LET s == GetEnv(env, "1.0")
    IN  IF FloatRaises(s) THEN 1 ELSE FloatOf(s)

\* str.lower() on the values the environment can hold here
Lower(s) == CASE s = "FULL" -> "full" [] OTHER -> s

\* variant of ExplainLevel: an unset EXPLAIN_LEVEL defaults to the fast mode
ExplainLevel_default_fast(env) == Lower(GetEnv(env, "fast"))

\* app.py:168
ExplainLevel(env) == Lower(GetEnv(env, "full"))

\* ------------------------------------------------------------- the adapter
\* e^(h/2) in units of 1/1000
RECURSIVE ExpH(_)
ExpH(h) == IF h = 0 THEN 1000 ELSE (ExpH(h - 1) * 1649) \div 1000

\* softmax of logits / 1e-6: the mass is shared by the maxima alone
HardMax(logits) ==
    LET m == MaxVec(logits)
        k == Cardinality({i \in DOMAIN logits : logits[i] = m})
    IN  [i \in DOMAIN logits |-> IF logits[i] = m THEN 10000 \div k ELSE 0]

\* tf.nn.softmax(logits / max(1e-6, temp))
Softmax(logits, temp) ==
    IF temp <= 0 THEN HardMax(logits)
    ELSE LET e == [i \in DOMAIN logits |-> ExpH((2 * logits[i]) \div temp)]
             s == SumVec(e)
         IN  [i \in DOMAIN logits |-> (e[i] * 10000) \div s]

\* preds = MODEL.predict(...)[0] of a classifier is a vector
NDim(v) == 1

\* app.py:135-136
Probs(preds, temp) ==
    LET logits == preds
    IN  IF NDim(logits) = 1 THEN Softmax(logits, temp) ELSE logits

\* variant of ArgMax: the last index that holds the maximum
ArgMax_last(v) ==
    LET m == MaxVec(v)
    IN  CHOOSE i \in DOMAIN v : v[i] = m /\ \A j \in DOMAIN v : v[j] = m => i >= j

\* np.argmax: the first index that holds the maximum
ArgMax(v) ==
    LET m == MaxVec(v)
    IN  CHOOSE i \in DOMAIN v : v[i] = m /\ \A j \in DOMAIN v : v[j] = m => i <= j

\* an occlusion scan that takes the last of the largest outputs
TopIdx_last(base_probs) == ArgMax_last(base_probs)

\* explanations.py:29-30: top_idx = int(np.argmax(base_probs)) of the raw
\* model output
TopIdx(base_probs) == ArgMax(base_probs)

Permutations0(n) ==
    {p \in [0 .. n - 1 -> 0 .. n - 1] : \A i, j \in 0 .. n - 1 : i # j => p[i] # p[j]}

\* np.argsort(v) with the default kind: ascending by value; the order of equal
\* values is not specified (the default sort is not stable)
ArgSort(v) ==
    {p \in Permutations0(Len0(v)) :
        \A i \in DOMAIN v : i + 1 \in DOMAIN v => v[p[i]] <= v[p[i + 1]]}

\* a[::-1]
Reversed(a) == [i \in DOMAIN a |-> a[Len0(a) - 1 - i]]

\* variant of Orders: the ascending order is not reversed
Orders_ascending(probs) == ArgSort(probs)

\* app.py:142
Orders(probs) == {Reversed(p) : p \in ArgSort(probs)}

\* app.py:143
Top1(order) == order[0]

Top2(order) == IF Len0(order) > 1 THEN order[1] ELSE order[0]

\* app.py:148
Margin(probs, order) ==
    IF Len0(order) > 1 THEN probs[Top1(order)] - probs[Top2(order)]
    ELSE probs[Top1(order)]

\* ------------------------------------------------------------ class names
\* utils.py:38
GenericNames(n) == [i \in 1 .. n |-> <<"Class", i - 1>>]

\* the list stored in class_names.json, when the file holds a list of strings
FileNames(n) == [i \in 1 .. n |-> <<"file", i - 1>>]

\* the class-names file: missing or no list of strings, or a list of names
\* (here one name short of the class count the source assumes)
ClassNameFiles ==
    {[valid |-> FALSE, data |-> <<>>]}
    \cup {[valid |-> TRUE, data |-> FileNames(NumClasses - 1)]}

\* utils.py:13-24
load_class_names(file, num_classes) ==
    IF file.valid THEN file.data ELSE GenericNames(num_classes)

\* CLASS_NAMES[i] if i < len(CLASS_NAMES) else str(i)
Label(names, i) == IF i < Len(names) THEN names[i + 1] ELSE <<"str", i>>

\* ------------------------------------------------------ python values used
PyNone == [tag |-> "None", keys |-> {}]

\* a local name that no assignment has bound yet
Unbound == [tag |-> "unbound", keys |-> {}]

\* {"error": str(e)}
ErrorDict == [tag |-> "dict", keys |-> {"error"}]

\* explanations.py:52-62
OcclusionResult ==
    [tag |-> "dict", keys |-> {"predicted_index", "base_confidence", "regions", "grid"}]

\* explanations.py:119-130
IGResult(return_signed) ==
    [tag |-> "dict",
     keys |-> {"target_index", "height", "width", "map", "summary"}
              \cup (IF return_signed THEN {"signed_map"} ELSE {})]

\* explanations.py:178
RoiResult == [tag |-> "list", keys |-> {}]

\* isinstance(x, dict) and key in x
IsDictWith(x, key) == x.tag = "dict" /\ key \in x.keys

IsError(x) == IsDictWith(x, "error")

EmptyVec == [i \in {} |-> 0]

NoResponse == [kind |-> "none"]

Routes == {"predict", "report"}

\* ---------------------------------------------------------------- state
VARIABLES
    MODEL,              \* app.py:26  "None" or "loaded"
    nClasses,           \* MODEL.output_shape[-1] of the loaded model
    CLASS_NAMES,        \* app.py:27
    explainEnv,         \* os.environ["EXPLAIN_LEVEL"], as the request reads it
    route,              \* the handler serving the current request
    pc,                 \* the handler's position
    temp,               \* app.py:132-134, read from os.environ["TEMP_SCALE"]
    preds, probs, pred_index, pred_label, confidence,
    top1, top2, margin,
    heatmap,            \* "unbound", or the strategy whose output it is
    explanations_level,
    occlusion, ig, roi_contrib,
    calls,              \* the collaborators invoked by this request, in order
    raised,             \* those of them that raised
    response

procVars == <<MODEL, nClasses, CLASS_NAMES>>

predVars == <<temp, preds, probs, pred_index, pred_label, confidence, top1, top2, margin>>

explVars == <<explainEnv, explanations_level, occlusion, ig, roi_contrib>>

\* locals of one call of a saliency function (gradcam.py:26-59, 80-98)
VARIABLES
    cam_fn,
    cam_pc,
    cam_input,
    cam_heatmap,
    cam_max_val

camVars == <<cam_fn, cam_pc, cam_input, cam_heatmap, cam_max_val>>

\* one call of compute_occlusion_sensitivity (explanations.py:11-62): its
\* arguments, the model it queries, the caller's array, its locals, and the
\* positions it has evaluated so far
VARIABLES
    occ_pc,
    occ_args,
    occ_model,
    input_batch,
    inp,
    occluded,
    occ_y,
    occ_x,
    deltas,
    scanned,
    regions

occVars == <<occ_pc, occ_args, occ_model, input_batch, inp, occluded, occ_y, occ_x,
             deltas, scanned, regions>>

\* one call of compute_integrated_gradients (explanations.py:65-130): its
\* arguments and the model it differentiates, the loop counter, the
\* accumulator, the sum of the gradients seen, and the returned dict
VARIABLES
    ig_pc,
    ig_call,
    ig_step,
    attributions,
    grad_sum,
    ig_out

igVars == <<ig_pc, ig_call, ig_step, attributions, grad_sum, ig_out>>

\* one call of compute_roi_contributions (explanations.py:133-178): its
\* arguments, the two totals, the loop counter and the result list
VARIABLES
    roi_pc,
    roi_map,
    labels,
    rois,
    roi_totals,
    roi_i,
    results

roiVars == <<roi_pc, roi_map, labels, rois, roi_totals, roi_i, results>>

\* one call of make_gradcam_heatmap up to its gradient (gradcam.py:10-51):
\* the layers of the searched model, the position of the search, the layer
\* resolved, and how the call ended
VARIABLES
    gc_pc,
    layers,
    layer_i,
    last_conv_layer,
    gc_outcome

layerVars == <<gc_pc, layers, layer_i, last_conv_layer, gc_outcome>>

\* the requests served concurrently by the threads of one process
\* (app.py:320): each request's endpoint, its position, the handle its own
\* _load_model() returned and the labels it read; the files deployed with the
\* process; how often _load_model() has returned; and the identity of the
\* object MODEL refers to (0 for None)
VARIABLES
    requests,
    deployment,
    loader_runs,
    model_id

srvVars == <<requests, deployment, loader_runs, model_id>>

\* the locals of the explanation functions and the concurrent requests, which
\* the two sequential handlers never touch
libVars == <<camVars, occVars, igVars, roiVars, layerVars, srvVars>>

\* the class each explanation of the request explains: the class_index
\* passed to the saliency functions (app.py:151-154), the target_index passed
\* to integrated gradients (app.py:178) and the top_idx the occlusion scan
\* computes (explanations.py:30); -1 before the call
VARIABLES
    class_index,
    target_index,
    top_idx

argVars == <<class_index, target_index, top_idx>>

\* the state of the two handlers and of the process they run in
handlerVars == <<procVars, route, pc, predVars, heatmap, explVars, calls, raised, response,
                 argVars>>

vars == <<handlerVars, libVars>>

\* everything but the concurrent requests and the globals they share
notSrv == <<route, pc, predVars, heatmap, explVars, calls, raised, response, argVars,
            camVars, occVars, igVars, roiVars, layerVars>>

\* everything but the locals of a saliency call
notCam == <<handlerVars, occVars, igVars, roiVars, layerVars, srvVars>>

\* everything but the state of an occlusion call
notOcc == <<handlerVars, camVars, igVars, roiVars, layerVars, srvVars>>

\* everything but the state of an integrated-gradients call
notIG == <<handlerVars, camVars, occVars, roiVars, layerVars, srvVars>>

\* everything but the state of a ROI aggregation call
notRoi == <<handlerVars, camVars, occVars, igVars, layerVars, srvVars>>

\* everything but the state of a layer search
notLayers == <<handlerVars, camVars, occVars, igVars, roiVars, srvVars>>

\* no saliency function is executing
CamIdle ==
    /\ cam_fn = "none"
    /\ cam_pc = "idle"
    /\ cam_input = EmptyVec
    /\ cam_heatmap = EmptyVec
    /\ cam_max_val = -1

\* no occlusion call is executing
OccIdle ==
    /\ occ_pc = "idle"
    /\ occ_args = [H |-> 0, W |-> 0, patch_size |-> 0, stride |-> 0, top_k |-> 0,
                   float32 |-> TRUE]
    /\ occ_model = [hot |-> <<0, 0>>, gain |-> 0]
    /\ input_batch = <<>>
    /\ inp = <<>>
    /\ occluded = <<>>
    /\ occ_y = 0
    /\ occ_x = 0
    /\ deltas = <<>>
    /\ scanned = <<>>
    /\ regions = <<>>

\* no integrated-gradients call is executing
IGIdle ==
    /\ ig_pc = "idle"
    /\ ig_call = [steps |-> 0]
    /\ ig_step = 0
    /\ attributions = <<>>
    /\ grad_sum = <<>>
    /\ ig_out = [tag |-> "none"]

\* bound: the requests served at the same time
MaxRequests == 2

Threads == 1 .. MaxRequests

\* a thread that serves no request
IdleRequest ==
    [endpoint |-> "none", at |-> "idle", model |-> 0,
     pred_index |-> -1, pred_label |-> <<>>, prob_labels |-> <<>>]

\* the files of the deployment before any request has looked at them
NotDeployed == [class_names |-> [valid |-> FALSE, data |-> <<>>], outputs |-> 0]

\* no request is being served
SrvIdle ==
    /\ requests = [t \in Threads |-> IdleRequest]
    /\ deployment = NotDeployed
    /\ loader_runs = 0
    /\ model_id = 0

\* no ROI aggregation call is executing
RoiIdle ==
    /\ roi_pc = "idle"
    /\ roi_map = <<>>
    /\ labels = [given |-> FALSE, names |-> <<>>]
    /\ rois = <<>>
    /\ roi_totals = [pos_total |-> 0, neg_total |-> 0]
    /\ roi_i = 0
    /\ results = <<>>

\* no Grad-CAM call is searching
LayersIdle ==
    /\ gc_pc = "idle"
    /\ layers = <<>>
    /\ layer_i = 0
    /\ last_conv_layer = 0
    /\ gc_outcome = "none"

Init ==
    /\ MODEL = "None"
    /\ nClasses = 0
    /\ CLASS_NAMES = <<>>
    /\ explainEnv = "unread"
    /\ route = "none"
    /\ pc = "idle"
    /\ temp = -1
    /\ preds = EmptyVec
    /\ probs = EmptyVec
    /\ pred_index = -1
    /\ pred_label = <<>>
    /\ confidence = -1
    /\ top1 = -1
    /\ top2 = -1
    /\ margin = -1
    /\ heatmap = "unbound"
    /\ explanations_level = "unbound"
    /\ occlusion = Unbound
    /\ ig = Unbound
    /\ roi_contrib = Unbound
    /\ calls = <<>>
    /\ raised = {}
    /\ response = NoResponse
    /\ class_index = -1
    /\ target_index = -1
    /\ top_idx = -1
    /\ CamIdle
    /\ OccIdle
    /\ IGIdle
    /\ RoiIdle
    /\ LayersIdle
    /\ SrvIdle

\* an exception leaves the handler: the request fails, nothing is returned
Fails == pc' = "failed" /\ response' = NoResponse

CallRaises(f) == calls' = Append(calls, f) /\ raised' = raised \cup {f}

CallReturns(f) == calls' = Append(calls, f) /\ UNCHANGED raised

\* a request arrives at one of the two handlers; its locals start unbound
Receive ==
    /\ pc \in {"idle", "done", "failed"}
    /\ route' \in Routes
    /\ pc' = "ensure_model_loaded"
    /\ temp' = -1
    /\ preds' = EmptyVec
    /\ probs' = EmptyVec
    /\ pred_index' = -1
    /\ pred_label' = <<>>
    /\ confidence' = -1
    /\ top1' = -1
    /\ top2' = -1
    /\ margin' = -1
    /\ heatmap' = "unbound"
    /\ explainEnv' = "unread"
    /\ explanations_level' = "unbound"
    /\ occlusion' = Unbound
    /\ ig' = Unbound
    /\ roi_contrib' = Unbound
    /\ calls' = <<>>
    /\ raised' = {}
    /\ response' = NoResponse
    /\ class_index' = -1
    /\ target_index' = -1
    /\ top_idx' = -1
    /\ UNCHANGED <<libVars, procVars>>

\* app.py:68-76, called at app.py:113 and app.py:216
ensure_model_loaded ==
    /\ pc = "ensure_model_loaded"
    /\ UNCHANGED <<libVars, argVars, route, predVars, heatmap, explVars>>
    /\ \/ /\ MODEL # "None"
          /\ pc' = "read_upload"
          /\ UNCHANGED <<MODEL, nClasses, CLASS_NAMES, calls, raised, response>>
       \/ /\ MODEL = "None"
          /\ CallRaises("_load_model")
          /\ Fails
          /\ UNCHANGED <<MODEL, nClasses, CLASS_NAMES>>
       \/ /\ MODEL = "None"
          /\ CallReturns("_load_model")
          /\ MODEL' = "loaded"
          /\ \E n \in 1 .. NumClasses, shapeRaises \in BOOLEAN, file \in ClassNameFiles :
                /\ nClasses' = n
                /\ CLASS_NAMES' =
                      load_class_names(file, IF shapeRaises THEN NumClasses ELSE n)
          /\ pc' = "read_upload"
          /\ UNCHANGED response

\* app.py:115-121
read_upload ==
    /\ pc = "read_upload"
    /\ UNCHANGED <<libVars, argVars, procVars, route, predVars, heatmap, explVars, calls, raised>>
    /\ \/ /\ response' = [kind |-> "error", status |-> 400]
          /\ pc' = "done"
       \/ /\ pc' = "preprocess"
          /\ UNCHANGED response

\* app.py:124-126: read_image_to_rgb raises on bytes that are no image
preprocess ==
    /\ pc = "preprocess"
    /\ UNCHANGED <<libVars, argVars, procVars, route, predVars, heatmap, explVars>>
    /\ \/ CallRaises("read_image_to_rgb") /\ Fails
       \/ /\ CallReturns("read_image_to_rgb")
          /\ pc' = "model_predict"
          /\ UNCHANGED response

\* variant of model_predict: a failing model call is swallowed and the handler
\* goes on with an all-zero distribution
model_predict_swallows ==
    /\ pc = "model_predict"
    /\ UNCHANGED <<libVars, argVars, procVars, route, heatmap, explVars, response>>
    /\ \/ /\ CallRaises("MODEL.predict")
          /\ temp' = 1
          /\ preds' = [i \in 0 .. nClasses - 1 |-> 0]
          /\ probs' = [i \in 0 .. nClasses - 1 |-> 0]
          /\ pred_index' = 0
          /\ pred_label' = Label(CLASS_NAMES, 0)
          /\ confidence' = 0
          /\ top1' = 0
          /\ top2' = 0
          /\ margin' = 0
       \/ /\ CallReturns("MODEL.predict")
          /\ \E out \in Vectors(nClasses), tempEnv \in TempEnvs :
                LET p == Probs(out, TempScale(tempEnv))
                IN  /\ temp' = TempScale(tempEnv)
                    /\ preds' = out
                    /\ probs' = p
                    /\ pred_index' = ArgMax(p)
                    /\ pred_label' = Label(CLASS_NAMES, ArgMax(p))
                    /\ confidence' = p[ArgMax(p)]
                    /\ \E order \in Orders(p) :
                          /\ top1' = Top1(order)
                          /\ top2' = Top2(order)
                          /\ margin' = Margin(p, order)
    /\ pc' = "gradcam"

\* app.py:129-148
model_predict ==
    /\ pc = "model_predict"
    /\ UNCHANGED <<libVars, argVars, procVars, route, heatmap, explVars>>
    /\ \/ /\ CallRaises("MODEL.predict")
          /\ Fails
          /\ UNCHANGED predVars
       \/ /\ CallReturns("MODEL.predict")
          /\ \E out \in Vectors(nClasses), tempEnv \in TempEnvs :
                LET p == Probs(out, TempScale(tempEnv))
                IN  /\ temp' = TempScale(tempEnv)
                    /\ preds' = out
                    /\ probs' = p
                    /\ pred_index' = ArgMax(p)
                    /\ pred_label' = Label(CLASS_NAMES, ArgMax(p))
                    /\ confidence' = p[ArgMax(p)]
                    /\ \E order \in Orders(p) :
                          /\ top1' = Top1(order)
                          /\ top2' = Top2(order)
                          /\ margin' = Margin(p, order)
          /\ pc' = "gradcam"
          /\ UNCHANGED response

\* app.py:150-152 (and 250-252): Grad-CAM is tried first
gradcam ==
    /\ pc = "gradcam"
    /\ class_index' = pred_index
    /\ UNCHANGED <<libVars, target_index, top_idx, procVars, route, predVars, explVars, response>>
    /\ \/ /\ CallReturns("make_gradcam_heatmap")
          /\ heatmap' = "gradcam"
          /\ pc' = "overlay"
       \/ /\ CallRaises("make_gradcam_heatmap")
          /\ pc' = "input_gradient"
          /\ UNCHANGED heatmap

\* variant of input_gradient: a failing fallback is swallowed and an all-zero
\* heatmap is used instead
input_gradient_fabricates ==
    /\ pc = "input_gradient"
    /\ class_index' = pred_index
    /\ UNCHANGED <<libVars, target_index, top_idx, procVars, route, predVars, explVars, response>>
    /\ \/ /\ CallReturns("make_input_gradient_heatmap")
          /\ heatmap' = "input_gradient"
       \/ /\ CallRaises("make_input_gradient_heatmap")
          /\ heatmap' = "zeros"
    /\ pc' = "overlay"

\* app.py:153-154 (and 253-254): the except branch; its own exception is not caught
input_gradient ==
    /\ pc = "input_gradient"
    /\ class_index' = pred_index
    /\ UNCHANGED <<libVars, target_index, top_idx, procVars, route, predVars, explVars>>
    /\ \/ /\ CallReturns("make_input_gradient_heatmap")
          /\ heatmap' = "input_gradient"
          /\ pc' = "overlay"
          /\ UNCHANGED response
       \/ /\ CallRaises("make_input_gradient_heatmap")
          /\ Fails
          /\ UNCHANGED heatmap

\* a variant of overlay that goes from the saliency stage to integrated
\* gradients, leaving the occlusion stage unentered at level "full"
overlay_skips_occlusion ==
    /\ pc = "overlay"
    /\ UNCHANGED <<libVars, argVars, procVars, route, predVars, heatmap, calls, raised, response>>
    /\ \/ /\ route = "predict"
          /\ \E env \in ExplainEnvs :
                /\ explainEnv' = env
                /\ explanations_level' = ExplainLevel(env)
                /\ pc' = IF ExplainLevel(env) = "full" THEN "integrated_gradients" ELSE "respond"
          /\ occlusion' = PyNone
          /\ ig' = PyNone
          /\ UNCHANGED roi_contrib
       \/ /\ route = "report"
          /\ occlusion' = PyNone
          /\ ig' = PyNone
          /\ roi_contrib' = PyNone
          /\ UNCHANGED <<explainEnv, explanations_level>>
          /\ pc' = "integrated_gradients"

\* app.py:155-171: the overlay is encoded, then /predict reads EXPLAIN_LEVEL;
\* app.py:255-265: /report has no level and binds all three slots to None
overlay ==
    /\ pc = "overlay"
    /\ UNCHANGED <<libVars, argVars, procVars, route, predVars, heatmap, calls, raised, response>>
    /\ \/ /\ route = "predict"
          /\ \E env \in ExplainEnvs :
                /\ explainEnv' = env
                /\ explanations_level' = ExplainLevel(env)
                /\ pc' = IF ExplainLevel(env) = "full" THEN "occlusion" ELSE "respond"
          /\ occlusion' = PyNone
          /\ ig' = PyNone
          /\ UNCHANGED roi_contrib
       \/ /\ route = "report"
          /\ occlusion' = PyNone
          /\ ig' = PyNone
          /\ roi_contrib' = PyNone
          /\ UNCHANGED <<explainEnv, explanations_level>>
          /\ pc' = "occlusion"

\* variant of occlusion_stage: the call is not wrapped in try/except
occlusion_stage_unguarded ==
    /\ pc = "occlusion"
    /\ UNCHANGED <<libVars, class_index, target_index, procVars, route, predVars, heatmap, explainEnv, explanations_level,
                   ig, roi_contrib>>
    /\ \/ /\ CallReturns("compute_occlusion_sensitivity")
          /\ occlusion' = OcclusionResult
          /\ top_idx' = TopIdx(preds)
          /\ pc' = "integrated_gradients"
          /\ UNCHANGED response
       \/ /\ CallRaises("compute_occlusion_sensitivity")
          /\ Fails
          /\ UNCHANGED <<occlusion, top_idx>>

\* app.py:173-176 (and 266-269)
occlusion_stage ==
    /\ pc = "occlusion"
    /\ UNCHANGED <<libVars, class_index, target_index, procVars, route, predVars, heatmap, explainEnv, explanations_level,
                   ig, roi_contrib, response>>
    /\ \/ /\ CallReturns("compute_occlusion_sensitivity")
          /\ occlusion' = OcclusionResult
          /\ top_idx' = TopIdx(preds)
       \/ /\ CallRaises("compute_occlusion_sensitivity")
          /\ occlusion' = ErrorDict
          /\ UNCHANGED top_idx
    /\ pc' = "integrated_gradients"

\* app.py:177-180
predict_ig ==
    /\ pc = "integrated_gradients"
    /\ target_index' = pred_index
    /\ route = "predict"
    /\ UNCHANGED <<libVars, class_index, top_idx, procVars, route, predVars, heatmap, explainEnv, explanations_level,
                   occlusion, roi_contrib, response>>
    /\ \/ /\ CallReturns("compute_integrated_gradients")
          /\ ig' = IGResult(TRUE)
       \/ /\ CallRaises("compute_integrated_gradients")
          /\ ig' = ErrorDict
    /\ pc' = "roi"

\* variant of predict_roi: the aggregation is attempted whatever ig holds
predict_roi_unconditional ==
    /\ pc = "roi"
    /\ route = "predict"
    /\ UNCHANGED <<libVars, argVars, procVars, route, predVars, heatmap, explainEnv, explanations_level,
                   occlusion, ig, response>>
    /\ \/ /\ IsDictWith(ig, "signed_map")
          /\ CallReturns("compute_roi_contributions")
          /\ roi_contrib' = RoiResult
       \/ /\ CallRaises("compute_roi_contributions")
          /\ roi_contrib' = ErrorDict
    /\ pc' = "respond"

\* app.py:182-189
predict_roi ==
    /\ pc = "roi"
    /\ route = "predict"
    /\ UNCHANGED <<libVars, argVars, procVars, route, predVars, heatmap, explainEnv, explanations_level,
                   occlusion, ig, response>>
    /\ \/ /\ IsDictWith(ig, "signed_map")
          /\ \/ /\ CallReturns("compute_roi_contributions")
                /\ roi_contrib' = RoiResult
             \/ /\ CallRaises("compute_roi_contributions")
                /\ roi_contrib' = ErrorDict
       \/ /\ ~IsDictWith(ig, "signed_map")
          /\ roi_contrib' = PyNone
          /\ UNCHANGED <<calls, raised>>
    /\ pc' = "respond"

\* app.py:270-271, 275-276
report_ig ==
    /\ pc = "integrated_gradients"
    /\ target_index' = pred_index
    /\ route = "report"
    /\ UNCHANGED <<libVars, class_index, top_idx, procVars, route, predVars, heatmap, explainEnv, explanations_level,
                   occlusion, roi_contrib, response>>
    /\ \/ /\ CallReturns("compute_integrated_gradients")
          /\ ig' = IGResult(TRUE)
          /\ pc' = "roi"
       \/ /\ CallRaises("compute_integrated_gradients")
          /\ ig' = ErrorDict
          /\ pc' = "respond"

\* app.py:272-276: the ROI call sits in the try block of integrated gradients
report_roi ==
    /\ pc = "roi"
    /\ route = "report"
    /\ UNCHANGED <<libVars, argVars, procVars, route, predVars, heatmap, explainEnv, explanations_level,
                   occlusion, response>>
    /\ \/ /\ IsDictWith(ig, "signed_map")
          /\ \/ /\ CallReturns("compute_roi_contributions")
                /\ roi_contrib' = RoiResult
                /\ UNCHANGED ig
             \/ /\ CallRaises("compute_roi_contributions")
                /\ ig' = ErrorDict
                /\ UNCHANGED roi_contrib
       \/ /\ ~IsDictWith(ig, "signed_map")
          /\ UNCHANGED <<ig, roi_contrib, calls, raised>>
    /\ pc' = "respond"

\* app.py:163-166 (and 278-281)
ProbsList(p, names) ==
    [i \in DOMAIN p |-> [index |-> i, label |-> Label(names, i), probability |-> p[i]]]

\* app.py:144-147 (and 244-247)
Top2Items(p, names, t1, t2) ==
    << [index |-> t1, label |-> Label(names, t1), probability |-> p[t1]],
       [index |-> t2, label |-> Label(names, t2), probability |-> p[t2]] >>

\* app.py:191-207: reading a local that was never bound raises UnboundLocalError
predict_respond ==
    /\ pc = "respond"
    /\ route = "predict"
    /\ UNCHANGED <<libVars, argVars, procVars, route, predVars, heatmap, explVars, calls, raised>>
    /\ IF Unbound \in {occlusion, ig, roi_contrib}
       THEN Fails
       ELSE /\ response' =
                [kind |-> "json",
                 status |-> 200,
                 predicted_index |-> pred_index,
                 predicted_label |-> pred_label,
                 confidence |-> confidence,
                 probabilities |-> ProbsList(probs, CLASS_NAMES),
                 top2 |-> Top2Items(probs, CLASS_NAMES, top1, top2),
                 margin |-> margin,
                 heatmap |-> heatmap,
                 classes |-> CLASS_NAMES,
                 explanations |->
                     [level |-> explanations_level,
                      occlusion |-> occlusion,
                      integratedGradients |-> ig,
                      roiContributions |-> roi_contrib]]
            /\ pc' = "done"

\* app.py:294-314
report_respond ==
    /\ pc = "respond"
    /\ route = "report"
    /\ UNCHANGED <<libVars, argVars, procVars, route, predVars, heatmap, explVars>>
    /\ \/ /\ CallRaises("build_html_pdf")
          /\ Fails
       \/ /\ CallReturns("build_html_pdf")
          /\ response' =
                [kind |-> "pdf",
                 status |-> 200,
                 heatmap |-> heatmap,
                 pred_label |-> pred_label,
                 confidence |-> confidence,
                 probabilities |-> ProbsList(probs, CLASS_NAMES),
                 explanations |->
                     [occlusion |-> occlusion,
                      integratedGradients |-> ig,
                      roiContributions |-> roi_contrib],
                 extra |-> [top2 |-> Top2Items(probs, CLASS_NAMES, top1, top2),
                            margin |-> margin]]
          /\ pc' = "done"

Next ==
    \/ Receive
    \/ ensure_model_loaded
    \/ read_upload
    \/ preprocess
    \/ model_predict
    \/ gradcam
    \/ input_gradient
    \/ overlay
    \/ occlusion_stage
    \/ predict_ig
    \/ predict_roi
    \/ report_ig
    \/ report_roi
    \/ predict_respond
    \/ report_respond

Spec == Init /\ [][Next]_vars

\* ------------------------------------------------------------ properties
Ran(f) == \E i \in 1 .. Len(calls) : calls[i] = f

\* f was called before g
RanBefore(f, g) == \E i, j \in 1 .. Len(calls) : i < j /\ calls[i] = f /\ calls[j] = g

Explainers ==
    {"compute_occlusion_sensitivity", "compute_integrated_gradients",
     "compute_roi_contributions"}

\* the JSON body carries the prediction fields the handler computed
HasPredictionFields(r) ==
    /\ r.kind = "json"
    /\ r.predicted_index = pred_index
    /\ r.predicted_label = pred_label
    /\ r.confidence = confidence
    /\ r.probabilities = ProbsList(probs, CLASS_NAMES)
    /\ r.top2 = Top2Items(probs, CLASS_NAMES, top1, top2)
    /\ r.margin = margin
    /\ r.heatmap = heatmap
    /\ r.heatmap \in {"gradcam", "input_gradient"}

\* /predict at level "full" has gone through its three explanation stages
FullPredictPastStages ==
    /\ route = "predict"
    /\ explanations_level = "full"
    /\ pc \in {"respond", "done"}

\* C1: in /predict at level "full", whichever of occlusion, integrated
\* gradients and ROI aggregation raise: a stage's slot holds an {error}
\* descriptor exactly when that stage raised, occlusion and integrated gradients
\* are both called and the ROI stage binds its slot (calling the aggregation
\* whenever integrated gradients returned), no explanation failure fails the
\* request, and the response delivered carries every prediction field.
C1_FailureIsolation ==
    /\ FullPredictPastStages =>
          /\ Ran("compute_occlusion_sensitivity")
          /\ Ran("compute_integrated_gradients")
          /\ RanBefore("compute_occlusion_sensitivity", "compute_integrated_gradients")
          /\ roi_contrib # Unbound
          /\ Ran("compute_roi_contributions")
                <=> "compute_integrated_gradients" \notin raised
          /\ IsError(occlusion) <=> "compute_occlusion_sensitivity" \in raised
          /\ IsError(ig) <=> "compute_integrated_gradients" \in raised
          /\ IsError(roi_contrib) <=> "compute_roi_contributions" \in raised
    /\ (route = "predict" /\ pc = "failed") => \A f \in Explainers : ~Ran(f)
    /\ (FullPredictPastStages /\ pc = "done") =>
          /\ HasPredictionFields(response)
          /\ response.explanations.occlusion = occlusion
          /\ response.explanations.integratedGradients = ig
          /\ response.explanations.roiContributions = roi_contrib

\* C1 witness: occlusion and the ROI aggregation both raised, integrated
\* gradients ran in between, and the response was delivered
C1_Witness ==
    /\ FullPredictPastStages
    /\ pc = "done"
    /\ raised = {"compute_occlusion_sensitivity", "compute_roi_contributions"}
    /\ Ran("compute_integrated_gradients")
    /\ HasPredictionFields(response)
    /\ IsError(response.explanations.occlusion)
    /\ IsError(response.explanations.roiContributions)
    /\ ~IsError(response.explanations.integratedGradients)

\* /predict has read a level other than "full" and has ended
FastPredictEnded ==
    /\ route = "predict"
    /\ explanations_level \notin {"unbound", "full"}
    /\ pc \in {"done", "failed"}

\* C2: with EXPLAIN_LEVEL other than "full", /predict runs none of the three
\* explanation stages and completes with a response that carries the
\* prediction fields and null occlusion, integratedGradients and
\* roiContributions slots.
C2_FastModeResponds ==
    FastPredictEnded =>
        /\ \A f \in Explainers : ~Ran(f)
        /\ pc = "done"
        /\ HasPredictionFields(response)
        /\ response.explanations.occlusion = PyNone
        /\ response.explanations.integratedGradients = PyNone
        /\ response.explanations.roiContributions = PyNone

\* C3 as stated: with EXPLAIN_LEVEL unset, /predict runs none of occlusion,
\* integrated gradients and ROI aggregation.
C3_UnsetIsFast ==
    (route = "predict" /\ explainEnv = "unset") => \A f \in Explainers : ~Ran(f)

\* C3 amended: with EXPLAIN_LEVEL unset, /predict works at level "full":
\* occlusion and integrated gradients are called, the ROI aggregation is called
\* when integrated gradients returned, and the response carries the level "full"
\* and the three slots, none of them null unless integrated gradients raised.
C3_UnsetIsFull ==
    (route = "predict" /\ explainEnv = "unset") =>
        /\ explanations_level \in {"unbound", "full"}
        /\ (pc = "respond" \/ (pc = "done" /\ response.kind = "json")) =>
              /\ explanations_level = "full"
              /\ Ran("compute_occlusion_sensitivity")
              /\ Ran("compute_integrated_gradients")
              /\ Ran("compute_roi_contributions")
                    <=> "compute_integrated_gradients" \notin raised
        /\ pc = "done" /\ response.kind = "json" =>
              /\ response.explanations.level = "full"
              /\ response.explanations.occlusion # PyNone
              /\ response.explanations.integratedGradients # PyNone
              /\ response.explanations.roiContributions = PyNone
                    <=> "compute_integrated_gradients" \in raised

\* C3 witness: EXPLAIN_LEVEL unset, all three stages ran, response delivered
C3_Witness ==
    /\ route = "predict"
    /\ explainEnv = "unset"
    /\ pc = "done"
    /\ response.kind = "json"
    /\ response.explanations.level = "full"
    /\ \A f \in Explainers : Ran(f)
    /\ raised = {}

\* C4: in /predict and /report, Grad-CAM is tried first; the input-gradient
\* fallback is called if and only if Grad-CAM raised; the heatmap is the
\* output of the strategy that returned; when both raise, the request fails
\* and no response exists; a delivered heatmap is never anything but the
\* output of one of the two strategies.
C4_SaliencyChain ==
    /\ Ran("make_input_gradient_heatmap") =>
          /\ "make_gradcam_heatmap" \in raised
          /\ RanBefore("make_gradcam_heatmap", "make_input_gradient_heatmap")
    /\ ("make_gradcam_heatmap" \in raised /\ pc # "input_gradient") =>
          Ran("make_input_gradient_heatmap")
    /\ heatmap = "gradcam" <=>
          (Ran("make_gradcam_heatmap") /\ "make_gradcam_heatmap" \notin raised)
    /\ heatmap = "input_gradient" <=>
          (Ran("make_input_gradient_heatmap")
              /\ "make_input_gradient_heatmap" \notin raised)
    /\ heatmap \in {"unbound", "gradcam", "input_gradient"}
    /\ "make_input_gradient_heatmap" \in raised =>
          /\ pc = "failed"
          /\ response = NoResponse
          /\ heatmap = "unbound"
          /\ calls[Len(calls)] = "make_input_gradient_heatmap"
    /\ response.kind \in {"json", "pdf"} =>
          /\ response.heatmap = heatmap
          /\ heatmap # "unbound"

\* C4 witness: Grad-CAM raised and the response carries the fallback's heatmap
C4_Witness ==
    /\ "make_gradcam_heatmap" \in raised
    /\ response.kind \in {"json", "pdf"}
    /\ response.heatmap = "input_gradient"

\* the handler has gone through the ROI stage
PastRoiStage ==
    /\ pc \in {"respond", "done"}
    /\ Ran("compute_integrated_gradients")

\* C5: in /predict and /report, the ROI aggregation is called only after
\* integrated gradients returned (its result holds a signed map); when
\* integrated gradients raised, the aggregation is not called and the
\* roiContributions slot is null, in the handler and in the response.
C5_RoiOnlyAfterSignedMap ==
    /\ Ran("compute_roi_contributions") =>
          /\ RanBefore("compute_integrated_gradients", "compute_roi_contributions")
          /\ "compute_integrated_gradients" \notin raised
          /\ ~(route = "report" /\ "compute_roi_contributions" \in raised) =>
                IsDictWith(ig, "signed_map")
    /\ (PastRoiStage /\ "compute_integrated_gradients" \in raised) =>
          /\ ~Ran("compute_roi_contributions")
          /\ roi_contrib = PyNone
          /\ response.kind \in {"json", "pdf"} =>
                response.explanations.roiContributions = PyNone
    /\ (PastRoiStage /\ ~Ran("compute_roi_contributions")) => roi_contrib = PyNone

\* C5 witness: integrated gradients raised and the response has a null ROI slot
C5_Witness ==
    /\ route = "predict"
    /\ pc = "done"
    /\ "compute_integrated_gradients" \in raised
    /\ IsError(response.explanations.integratedGradients)
    /\ response.explanations.roiContributions = PyNone

\* C6: when the model call of the base prediction raises, the request fails:
\* nothing is called after it, no prediction field, heatmap or explanation
\* slot is bound, and no response exists.
C6_PredictFailureIsFatal ==
    "MODEL.predict" \in raised =>
        /\ pc = "failed"
        /\ response = NoResponse
        /\ calls[Len(calls)] = "MODEL.predict"
        /\ probs = EmptyVec
        /\ pred_index = -1
        /\ heatmap = "unbound"
        /\ occlusion = Unbound /\ ig = Unbound /\ roi_contrib = Unbound

\* C6 witness: the model call raised in a handler
C6_Witness ==
    /\ "MODEL.predict" \in raised
    /\ pc = "failed"
    /\ route \in Routes

\* the model call returned and the class distribution is computed
HasDistribution == probs # EmptyVec

\* C7: pred_index is an index of the largest probability and the lowest such
\* index, confidence is the probability at pred_index, and with four equal
\* probabilities pred_index is 0 and margin is 0; the response carries them.
C7_ArgMaxLowestIndex ==
    HasDistribution =>
        /\ pred_index \in DOMAIN probs
        /\ \A j \in DOMAIN probs : probs[j] <= probs[pred_index]
        /\ \A j \in DOMAIN probs : j < pred_index => probs[j] < probs[pred_index]
        /\ confidence = probs[pred_index]
        /\ (Len0(probs) = 4 /\ \A i, j \in DOMAIN probs : probs[i] = probs[j]) =>
              (pred_index = 0 /\ margin = 0)
        /\ response.kind = "json" =>
              /\ response.predicted_index = pred_index
              /\ response.confidence = confidence

\* C7 witness: four equal probabilities, answered with index 0 and margin 0
C7_Witness ==
    /\ Len0(probs) = 4
    /\ \A i, j \in DOMAIN probs : probs[i] = probs[j]
    /\ response.kind = "json"
    /\ response.predicted_index = 0
    /\ response.margin = 0

\* class i ranks before class j: larger probability, ties to the lower index
RanksBefore(p, i, j) == p[i] > p[j] \/ (p[i] = p[j] /\ i < j)

\* the number of classes that rank before class i
RankOf(p, i) == Cardinality({j \in DOMAIN p : RanksBefore(p, j, i)})

\* C8: top1 and top2 are the first and the second class of the ranking by
\* probability descending, ties to the lowest index, so that the first top2
\* item is the predicted class.
C8_Top2FollowsRanking ==
    HasDistribution =>
        /\ RankOf(probs, top1) = 0
        /\ top1 = pred_index
        /\ Len0(probs) > 1 => RankOf(probs, top2) = 1
        /\ response.kind = "json" => response.top2[1].index = response.predicted_index

\* the largest value of v outside one index that holds the maximum
SecondLargest(v) ==
    LET rest == DOMAIN v \ {ArgMax(v)}
    IN  CHOOSE x \in {v[i] : i \in rest} : \A j \in rest : v[j] <= x

\* C9: with two classes or more, margin is prob[top1] - prob[top2], these are
\* the largest and the second largest probability, margin is >= 0 and is 0
\* exactly when the two are equal; with a single class, margin is prob[top1].
C9_Margin ==
    HasDistribution =>
        /\ Len0(probs) > 1 =>
              LET first == MaxVec(probs)
                  second == SecondLargest(probs)
              IN  /\ top1 # top2
                  /\ probs[top1] = first
                  /\ probs[top2] = second
                  /\ margin = probs[top1] - probs[top2]
                  /\ margin >= 0
                  /\ margin = 0 <=> first = second
        /\ Len0(probs) = 1 =>
              /\ top1 = 0 /\ top2 = 0
              /\ margin = probs[top1]
        /\ response.kind = "json" => response.margin = margin

\* C9 witness: two classes or more with tied largest probabilities, margin 0
C9_Witness ==
    /\ Len0(probs) > 1
    /\ top1 # top2
    /\ probs[top1] = probs[top2]
    /\ response.kind = "json"
    /\ response.margin = 0

\* a raw output that is non-negative and sums to 1
ProbabilityLike(v) == (\A i \in DOMAIN v : v[i] >= 0) /\ SumVec(v) = 1

\* C10: a raw model output that is already probability-like is the class
\* distribution, unchanged.
C10_ProbabilitiesPassThrough ==
    (HasDistribution /\ ProbabilityLike(preds)) =>
        \A i \in DOMAIN preds : probs[i] = preds[i] * 10000

\* ---------------------------------------------------------------------
\* Saliency maps: the normalisation shared by make_gradcam_heatmap and
\* make_input_gradient_heatmap (gradcam.py).  A map is a function on
\* 0 .. MapCells-1; a raw value k stands for the real k, a normalised value
\* k stands for k / HeatOne, and the guard 1e-12 is 1 / Guard of a raw unit.

\* bound: cells of a saliency map
MapCells == 3

\* bound: largest magnitude of a raw map value
MaxGrad == 2

\* fixed point of a normalised map: HeatOne stands for 1.0
HeatOne == 10000

\* 1e-12 of gradcam.py:58 and gradcam.py:97, as a fraction of a raw unit
Guard == 1000

Cells == 0 .. MapCells - 1

\* what tf.reduce_sum(tf.multiply(pooled_grads, conv_outputs), axis=-1)
\* can be: any sign in every cell
WeightedSums == [Cells -> -MaxGrad .. MaxGrad]

\* what tf.reduce_max(tf.abs(grads), axis=-1)[0] can be: no cell negative
AbsMaxima == [Cells -> 0 .. MaxGrad]

SaliencyFns == {"make_gradcam_heatmap", "make_input_gradient_heatmap"}

PreReluMaps(fn) == IF fn = "make_gradcam_heatmap" THEN WeightedSums ELSE AbsMaxima

\* a ReLU that lets negative values through
Relu_identity(v) == v

\* tf.nn.relu
Relu(v) == [i \in DOMAIN v |-> IF v[i] > 0 THEN v[i] ELSE 0]

\* max_val + 1e-12, in units of 1 / Guard
Guarded(max_val) == max_val * Guard + 1

\* heatmap / (max_val + 1e-12), in units of 1 / HeatOne
Divided(v, max_val) == [i \in DOMAIN v |-> (v[i] * Guard * HeatOne) \div Guarded(max_val)]

\* tf.where(max_val > 0, heatmap / (max_val + 1e-12), heatmap)
Where(v, max_val) == IF max_val > 0 THEN Divided(v, max_val) ELSE v

\* a saliency function has computed its map before the ReLU
saliency_call ==
    /\ cam_pc = "idle"
    /\ \E fn \in SaliencyFns :
          /\ cam_fn' = fn
          /\ \E m \in PreReluMaps(fn) :
                /\ cam_input' = m
                /\ cam_heatmap' = m
    /\ cam_pc' = "relu"
    /\ cam_max_val' = -1
    /\ UNCHANGED notCam

\* gradcam.py:56 and gradcam.py:95
saliency_relu ==
    /\ cam_pc = "relu"
    /\ cam_heatmap' = Relu(cam_heatmap)
    /\ cam_pc' = "normalize"
    /\ UNCHANGED <<cam_fn, cam_input, cam_max_val, notCam>>

\* gradcam.py:57-59 and gradcam.py:96-98
saliency_normalize ==
    /\ cam_pc = "normalize"
    /\ cam_max_val' = MaxVec(cam_heatmap)
    /\ cam_heatmap' = Where(cam_heatmap, MaxVec(cam_heatmap))
    /\ cam_pc' = "returned"
    /\ UNCHANGED <<cam_fn, cam_input, notCam>>

NextSaliency ==
    \/ saliency_call
    \/ saliency_relu
    \/ saliency_normalize

SpecSaliency == Init /\ [][NextSaliency]_vars

\* the largest value of a returned map
ReturnedMax == MaxVec(cam_heatmap)

\* C11: every value of a returned saliency map is in [0, 1]; a map with no
\* positive value before normalisation comes back all zero and the divisor
\* is never zero; a map with a positive value comes back with maximum 1, up
\* to the 1e-12 guard.
C11_HeatmapRange ==
    cam_pc = "returned" =>
        /\ \A i \in DOMAIN cam_heatmap : cam_heatmap[i] >= 0 /\ cam_heatmap[i] <= HeatOne
        /\ Guarded(cam_max_val) # 0
        /\ (\A i \in DOMAIN cam_input : cam_input[i] <= 0) =>
              \A i \in DOMAIN cam_heatmap : cam_heatmap[i] = 0
        /\ (\E i \in DOMAIN cam_input : cam_input[i] > 0) =>
              /\ ReturnedMax <= HeatOne
              /\ HeatOne - ReturnedMax <= HeatOne \div Guard + 1

\* a Grad-CAM map with a negative and a positive cell has been normalised
C11_Witness ==
    /\ cam_pc = "returned"
    /\ cam_fn = "make_gradcam_heatmap"
    /\ \E i, j \in DOMAIN cam_input : cam_input[i] < 0 /\ cam_input[j] > 0
    /\ ReturnedMax > 0

\* ---------------------------------------------------------------------
\* Occlusion sensitivity: compute_occlusion_sensitivity (explanations.py).
\* An array of shape (1, H, W, C) is a function on the pixels <<y, x>>; the
\* channels of a pixel are blanked together, so one value stands for them.

\* bound: largest height and width of an input array
MaxSide == 3

\* values of the stride argument
Strides == {1, 2}

\* values of the top_k argument; 5 is the value the handlers pass
TopKs == {-1, 0, 1, 2, 5}

Pixels(H, W) == (0 .. H - 1) \X (0 .. W - 1)

\* a preprocessed input array
Batch(H, W) == [p \in Pixels(H, W) |-> 1]

\* range(start, stop, step) for a positive step
Range(start, stop, step) ==
    LET n == IF stop > start THEN (stop - start + step - 1) \div step ELSE 0
    IN  [i \in 1 .. n |-> start + (i - 1) * step]

\* a scan that starts patches up to the last pixel of the array
ScanRange_to_edge(size, patch_size, stride) == Range(0, size, stride)

\* explanations.py:34-35
ScanRange(size, patch_size, stride) == Range(0, size - patch_size + 1, stride)

y_range == ScanRange(occ_args.H, occ_args.patch_size, occ_args.stride)

x_range == ScanRange(occ_args.W, occ_args.patch_size, occ_args.stride)

\* a[0, y : y + patch_size, x : x + patch_size, :] = 0.0 on a copy of a
ZeroPatch(a, y, x, patch_size) ==
    [p \in DOMAIN a |->
        IF y <= p[1] /\ p[1] < y + patch_size /\ x <= p[2] /\ p[2] < x + patch_size
        THEN 0 ELSE a[p]]

\* model.predict(a)[0][top_idx]: the queried model loses `gain` of its
\* confidence when the pixel it looks at is blank
Predict(model, a) == 2 - (IF a[model.hot] = 0 THEN model.gain ELSE 0)

RECURSIVE InsertDesc(_, _, _)
\* the index i goes behind every index whose key is at least its own
InsertDesc(sorted, i, keys) ==
    IF sorted = <<>> THEN <<i>>
    ELSE IF keys[Head(sorted)] >= keys[i]
         THEN <<Head(sorted)>> \o InsertDesc(Tail(sorted), i, keys)
         ELSE <<i>> \o sorted

RECURSIVE SortedIndices(_, _)
\* the first n indices of keys in descending order of key, ties in order
SortedIndices(keys, n) ==
    IF n = 0 THEN <<>> ELSE InsertDesc(SortedIndices(keys, n - 1), n, keys)

\* list.sort(key=..., reverse=True), keys[i] the key of seq[i]: descending
\* and stable
SortDesc(seq, keys) ==
    LET perm == SortedIndices(keys, Len(seq))
    IN  [i \in 1 .. Len(seq) |-> seq[perm[i]]]

\* key=lambda r: r["delta"]
DeltaKey(r) == r.delta

\* seq[:k]
Slice(seq, k) ==
    LET n == Len(seq)
        stop == IF k >= 0 THEN (IF k < n THEN k ELSE n)
                ELSE (IF n + k > 0 THEN n + k ELSE 0)
    IN  SubSeq(seq, 1, stop)

\* explanations.py:26-35
occlusion_call ==
    /\ occ_pc = "idle"
    /\ \E H \in 1 .. MaxSide, W \in 1 .. MaxSide, P \in 1 .. MaxSide, S \in Strides,
          K \in TopKs, f32 \in BOOLEAN, g \in {-1, 1} :
          /\ occ_args' = [H |-> H, W |-> W, patch_size |-> P, stride |-> S, top_k |-> K,
                          float32 |-> f32]
          /\ \E hot \in Pixels(H, W) : occ_model' = [hot |-> hot, gain |-> g]
          /\ input_batch' = Batch(H, W)
          /\ inp' = Batch(H, W)
    /\ occluded' = <<>>
    /\ occ_y' = 1
    /\ occ_x' = 1
    /\ deltas' = <<>>
    /\ scanned' = <<>>
    /\ regions' = <<>>
    /\ occ_pc' = "scan"
    /\ UNCHANGED notOcc

\* the array is blanked where it stands, without inp.copy()
occlude_position_in_place ==
    /\ occ_pc = "scan"
    /\ occ_y <= Len(y_range)
    /\ Len(x_range) > 0
    /\ LET y == y_range[occ_y]
           x == x_range[occ_x]
           P == occ_args.patch_size
           blanked == ZeroPatch(inp, y, x, P)
       IN  /\ occluded' = blanked
           /\ inp' = blanked
           /\ input_batch' = IF occ_args.float32 THEN blanked ELSE input_batch
           /\ deltas' = Append(deltas, [bbox |-> <<x, y, P, P>>,
                                        delta |-> Predict(occ_model, inp) - Predict(occ_model, blanked)])
           /\ scanned' = Append(scanned, <<x, y, P, P>>)
    /\ IF occ_x < Len(x_range)
       THEN occ_x' = occ_x + 1 /\ occ_y' = occ_y
       ELSE occ_x' = 1 /\ occ_y' = occ_y + 1
    /\ UNCHANGED <<occ_pc, occ_args, occ_model, regions, notOcc>>

\* explanations.py:37-46, one pass of the inner loop
occlude_position ==
    /\ occ_pc = "scan"
    /\ occ_y <= Len(y_range)
    /\ Len(x_range) > 0
    /\ LET y == y_range[occ_y]
           x == x_range[occ_x]
           P == occ_args.patch_size
       IN  /\ occluded' = ZeroPatch(inp, y, x, P)
           /\ \/ /\ occ_pc' = "raised"
                 /\ UNCHANGED <<deltas, scanned, occ_x, occ_y>>
              \/ /\ deltas' = Append(deltas, [bbox |-> <<x, y, P, P>>,
                                              delta |-> Predict(occ_model, inp)
                                                        - Predict(occ_model, occluded')])
                 /\ scanned' = Append(scanned, <<x, y, P, P>>)
                 /\ IF occ_x < Len(x_range)
                    THEN occ_x' = occ_x + 1 /\ occ_y' = occ_y
                    ELSE occ_x' = 1 /\ occ_y' = occ_y + 1
                 /\ UNCHANGED occ_pc
    /\ UNCHANGED <<occ_args, occ_model, input_batch, inp, regions, notOcc>>

\* explanations.py:48-62
occlusion_return ==
    /\ occ_pc = "scan"
    /\ occ_y > Len(y_range) \/ Len(x_range) = 0
    /\ deltas' = SortDesc(deltas, [i \in 1 .. Len(deltas) |-> DeltaKey(deltas[i])])
    /\ regions' = Slice(deltas', occ_args.top_k)
    /\ occ_pc' = "returned"
    /\ UNCHANGED <<occ_args, occ_model, input_batch, inp, occluded, occ_y, occ_x, scanned,
                   notOcc>>

NextOcclusion ==
    \/ occlusion_call
    \/ occlude_position
    \/ occlusion_return

SpecOcclusion == Init /\ [][NextOcclusion]_vars

\* the patch starts the scan may use along an axis of the given size
GridStarts(size, patch_size, stride) ==
    {k \in 0 .. size : k % stride = 0 /\ k + patch_size <= size}

\* the bounding box b covers the pixel p
Covers(b, p) == b[2] <= p[1] /\ p[1] < b[2] + b[4] /\ b[1] <= p[2] /\ p[2] < b[1] + b[3]

\* C12: the scan evaluates exactly the grid positions 0, S, 2S, ... that
\* keep the patch inside the array, in row-major order and each once; with
\* P <= H and P <= W there are (floor((H-P)/S)+1) * (floor((W-P)/S)+1) of
\* them (36 for a 224 x 224 array, patch 48, stride 32); every bounding box
\* lies inside the array and the pixels behind the last patch are never
\* covered.
C12_OcclusionGrid ==
    /\ Len(ScanRange(224, 48, 32)) * Len(ScanRange(224, 48, 32)) = 36
    /\ occ_pc = "returned" =>
          LET H == occ_args.H
              W == occ_args.W
              P == occ_args.patch_size
              S == occ_args.stride
          IN  /\ Len(scanned) = Cardinality(GridStarts(H, P, S)) * Cardinality(GridStarts(W, P, S))
              /\ \A i \in 1 .. Len(scanned) :
                    /\ scanned[i][1] \in GridStarts(W, P, S)
                    /\ scanned[i][2] \in GridStarts(H, P, S)
                    /\ scanned[i][3] = P /\ scanned[i][4] = P
                    /\ scanned[i][1] >= 0 /\ scanned[i][1] + scanned[i][3] <= W
                    /\ scanned[i][2] >= 0 /\ scanned[i][2] + scanned[i][4] <= H
              /\ \A i, j \in 1 .. Len(scanned) :
                    i < j => \/ scanned[i][2] < scanned[j][2]
                             \/ scanned[i][2] = scanned[j][2] /\ scanned[i][1] < scanned[j][1]
              /\ (P <= H /\ P <= W) =>
                    /\ Len(scanned) = ((H - P) \div S + 1) * ((W - P) \div S + 1)
                    /\ \A p \in Pixels(H, W) :
                          (p[1] >= ((H - P) \div S) * S + P \/ p[2] >= ((W - P) \div S) * S + P)
                              => \A i \in 1 .. Len(scanned) : ~Covers(scanned[i], p)

\* a scan of several positions has returned and left the last column
\* uncovered
C12_Witness ==
    /\ occ_pc = "returned"
    /\ Len(scanned) >= 2
    /\ occ_args.patch_size <= occ_args.W
    /\ (occ_args.W - occ_args.patch_size) % occ_args.stride # 0
    /\ \E p \in Pixels(occ_args.H, occ_args.W) :
          \A i \in 1 .. Len(scanned) : ~Covers(scanned[i], p)

\* the smaller of two integers
Min(a, b) == IF a < b THEN a ELSE b

\* the place of a bounding box in the scan
ScanIndex(b) == CHOOSE i \in 1 .. Len(scanned) : scanned[i] = b

\* C13: the returned regions are at most min(topK, candidates) many, are
\* ordered by non-increasing delta, are the top-K of the candidates, and keep
\* the scan order among equal deltas, for every topK the function accepts.
C13_TopKRegions ==
    occ_pc = "returned" =>
        /\ Len(regions) <= Min(occ_args.top_k, Len(deltas))
        /\ \A i, j \in 1 .. Len(regions) :
              i < j => /\ regions[i].delta >= regions[j].delta
                       /\ regions[i].delta = regions[j].delta
                             => ScanIndex(regions[i].bbox) < ScanIndex(regions[j].bbox)
        /\ \A i \in 1 .. Len(regions), k \in 1 .. Len(deltas) :
              (\A j \in 1 .. Len(regions) : regions[j] # deltas[k])
                  => regions[i].delta >= deltas[k].delta

\* C14: the scan never changes the caller's array, and every position is
\* evaluated on an array that differs from it in exactly one blanked patch.
C14_InputUntouched ==
    occ_pc # "idle" =>
        /\ input_batch = Batch(occ_args.H, occ_args.W)
        /\ inp = input_batch
        /\ occluded # <<>> =>
              \E y \in GridStarts(occ_args.H, occ_args.patch_size, occ_args.stride),
                 x \in GridStarts(occ_args.W, occ_args.patch_size, occ_args.stride) :
                    /\ \A p \in DOMAIN occluded :
                          occluded[p] =
                              IF Covers(<<x, y, occ_args.patch_size, occ_args.patch_size>>, p)
                              THEN 0 ELSE input_batch[p]
                    /\ occ_pc # "raised" =>
                          scanned[Len(scanned)] = <<x, y, occ_args.patch_size, occ_args.patch_size>>

\* a float32 array, which the function does not copy on entry, has been
\* scanned at two positions or more
C14_Witness ==
    /\ occ_pc = "returned"
    /\ occ_args.float32
    /\ Len(scanned) >= 2
    /\ \E p \in DOMAIN occluded : occluded[p] = 0
    /\ \E p \in DOMAIN occluded : occluded[p] # 0

\* ---------------------------------------------------------------------
\* Integrated gradients: compute_integrated_gradients (explanations.py).
\* An array of shape (H, W, C) is a function on <<pixel, channel>>.  An
\* interpolation coefficient k stands for k / AlphaOne, and so does an
\* attribution; a normalised value k stands for k / HeatOne.

\* bound: largest value of the steps argument
MaxSteps == 2

\* fixed point of the interpolation coefficients: AlphaOne stands for 1.0
AlphaOne == 12

IGEntries == {0, 1} \X {0, 1}

\* pixel values of the input and values of the baseline argument
IGValues == {0, 1}

\* the differentiated model: its gradient at x is w + q * x
IGModels == [w : [IGEntries -> {-1, 0, 1}], q : {0, 1}]

\* tf.linspace(0.0, 1.0, steps)[i], i from 0
Alpha(i, steps) == IF steps = 1 THEN 0 ELSE (i * AlphaOne) \div (steps - 1)

\* x = baseline_img + alpha * (inp - baseline_img), in units of 1 / AlphaOne
Interpolated(x, baseline, alpha) ==
    [e \in DOMAIN x |-> baseline * AlphaOne + alpha * (x[e] - baseline)]

\* tape.gradient(target, x_tf)[0], in units of 1 / AlphaOne
Gradient(model, x) == [e \in DOMAIN x |-> model.w[e] * AlphaOne + model.q * x[e]]

\* the summed gradients returned as they are
ScaleByDifference_none(attr, x, baseline, steps) == attr

\* attributions *= (inp[0] - baseline_img[0]) / float(steps)
ScaleByDifference(attr, x, baseline, steps) ==
    [e \in DOMAIN attr |-> (attr[e] * (x[e] - baseline)) \div steps]

\* attributions.mean(axis=-1)
ChannelMean(attr) == [p \in {0, 1} |-> (attr[<<p, 0>>] + attr[<<p, 1>>]) \div 2]

Abs(v) == [i \in DOMAIN v |-> IF v[i] < 0 THEN -v[i] ELSE v[i]]

\* explanations.py:79-90
ig_enter ==
    /\ ig_pc = "idle"
    /\ \E x \in [IGEntries -> IGValues], b \in IGValues, n \in 1 .. MaxSteps,
          signed \in BOOLEAN, m \in IGModels :
          ig_call' = [inp |-> x, baseline |-> b, steps |-> n, return_signed |-> signed,
                      model |-> m]
    /\ ig_step' = 0
    /\ attributions' = [e \in IGEntries |-> 0]
    /\ grad_sum' = [e \in IGEntries |-> 0]
    /\ ig_pc' = "loop"
    /\ UNCHANGED <<ig_out, notIG>>

\* explanations.py:92-100, one pass of the loop
ig_accumulate ==
    /\ ig_pc = "loop"
    /\ ig_step < ig_call.steps
    /\ LET x == Interpolated(ig_call.inp, ig_call.baseline, Alpha(ig_step, ig_call.steps))
           grads == Gradient(ig_call.model, x)
       IN  /\ attributions' = [e \in IGEntries |-> attributions[e] + grads[e]]
           /\ grad_sum' = [e \in IGEntries |-> grad_sum[e] + grads[e]]
    /\ ig_step' = ig_step + 1
    /\ UNCHANGED <<ig_pc, ig_call, ig_out, notIG>>

\* explanations.py:102-130
ig_return ==
    /\ ig_pc = "loop"
    /\ ig_step = ig_call.steps
    /\ LET scaled == ScaleByDifference(attributions, ig_call.inp, ig_call.baseline,
                                       ig_call.steps)
           signed_map == ChannelMean(scaled)
           magnitude_map == Abs(signed_map)
           max_val == IF MaxVec(magnitude_map) > 0 THEN MaxVec(magnitude_map) ELSE AlphaOne
           norm_mag == [p \in DOMAIN magnitude_map |-> (magnitude_map[p] * HeatOne) \div max_val]
           max_abs == IF MaxVec(Abs(signed_map)) # 0 THEN MaxVec(Abs(signed_map)) ELSE AlphaOne
       IN  /\ attributions' = scaled
           /\ ig_out' = [tag |-> "dict",
                         raw_signed_map |-> signed_map,
                         max_val |-> max_val,
                         map |-> norm_mag,
                         has_signed_map |-> ig_call.return_signed,
                         signed_map |->
                             IF ig_call.return_signed
                             THEN [p \in DOMAIN signed_map |-> (signed_map[p] * HeatOne) \div max_abs]
                             ELSE <<>>]
    /\ ig_pc' = "returned"
    /\ UNCHANGED <<ig_call, ig_step, grad_sum, notIG>>

NextIG ==
    \/ ig_enter
    \/ ig_accumulate
    \/ ig_return

SpecIG == Init /\ [][NextIG]_vars

\* the input array equals the baseline in every entry
BaselineIsInput == \A e \in IGEntries : ig_call.inp[e] = ig_call.baseline

\* C15: when the baseline equals the input, the signed attribution map is
\* zero everywhere for every step count N >= 1 and whatever the gradients;
\* the normalised magnitude map and the transported signed map are zero
\* too, their divisor taking its default 1.
C15_ZeroAttribution ==
    (ig_pc = "returned" /\ BaselineIsInput) =>
        /\ \A p \in DOMAIN ig_out.raw_signed_map : ig_out.raw_signed_map[p] = 0
        /\ ig_out.max_val = AlphaOne
        /\ \A p \in DOMAIN ig_out.map : ig_out.map[p] = 0
        /\ ig_out.has_signed_map =>
              /\ DOMAIN ig_out.signed_map = DOMAIN ig_out.map
              /\ \A p \in DOMAIN ig_out.signed_map : ig_out.signed_map[p] = 0

\* a call with baseline = input has returned its signed map after summing
\* non-zero gradients over two steps
C15_Witness ==
    /\ ig_pc = "returned"
    /\ BaselineIsInput
    /\ ig_call.steps >= 2
    /\ ig_out.has_signed_map
    /\ \E e \in IGEntries : grad_sum[e] # 0

\* ---------------------------------------------------------------------
\* ROI aggregation: compute_roi_contributions (explanations.py).  A signed
\* map of shape (H, W) is a function on the pixels <<y, x>>.  A mass k
\* stands for k / MassOne, where the floor 1e-8 of the positive total is one
\* unit; a percentage k stands for k / 100 percent.

\* bound: largest magnitude of a value of the signed map
MaxMass == 2

\* 1.0 of the signed map in units of the floor 1e-8
MassOne == 1000

\* the shapes (H, W) of the signed maps
RoiShapes == {<<5, 6>>}

\* rect(px, py, pw, ph), the proportions given in percent
Rect(px, py, pw, ph, H, W) ==
    <<(px * W) \div 100, (py * H) \div 100, (pw * W) \div 100, (ph * H) \div 100>>

\* explanations.py:147-153
Rois(H, W) ==
    << [name |-> "Left Medial Temporal (hippocampal region)", bbox |-> Rect(10, 45, 18, 20, H, W)],
       [name |-> "Right Medial Temporal (hippocampal region)", bbox |-> Rect(72, 45, 18, 20, H, W)],
       [name |-> "Frontal Lobe", bbox |-> Rect(20, 10, 60, 20, H, W)],
       [name |-> "Parietal Lobe", bbox |-> Rect(20, 30, 60, 20, H, W)],
       [name |-> "Occipital Lobe", bbox |-> Rect(25, 70, 50, 20, H, W)] >>

\* the signed maps drawn: zero but for two pixels
SignedMaps(H, W) ==
    {[p \in Pixels(H, W) |-> IF p = p1 THEN v1 ELSE IF p = p2 THEN v2 ELSE 0] :
        p1 \in Pixels(H, W), p2 \in Pixels(H, W),
        v1 \in -MaxMass .. MaxMass, v2 \in -MaxMass .. MaxMass}

RECURSIVE SumOver(_, _)
\* np.sum of m over the pixels of region
SumOver(m, region) ==
    IF region = {} THEN 0
    ELSE LET p == CHOOSE q \in region : TRUE
         IN  m[p] + SumOver(m, region \ {p})

\* np.clip(m, 0, None)
ClipPos(m) == [p \in DOMAIN m |-> IF m[p] > 0 THEN m[p] ELSE 0]

\* np.clip(m, None, 0)
ClipNeg(m) == [p \in DOMAIN m |-> IF m[p] < 0 THEN m[p] ELSE 0]

\* the pixels of signed_map[y : y + h, x : x + w]
SubRegion(m, bbox) ==
    {p \in DOMAIN m : /\ bbox[2] <= p[1] /\ p[1] < bbox[2] + bbox[4]
                      /\ bbox[1] <= p[2] /\ p[2] < bbox[1] + bbox[3]}

AbsInt(v) == IF v < 0 THEN -v ELSE v

Max2(a, b) == IF a >= b THEN a ELSE b

\* a sort by the positive percentage alone
DominantKey_positive(r) == r.positivePercent

\* key=lambda r: max(r["positivePercent"], r["negativePercent"])
DominantKey(r) == Max2(r.positivePercent, r.negativePercent)

\* a direction that needs the positive sum to exceed the negative one
Direction_strict(pos_sum, neg_sum) ==
    IF pos_sum > AbsInt(neg_sum) THEN "increased" ELSE "decreased"

\* explanations.py:167
Direction(pos_sum, neg_sum) ==
    IF pos_sum >= AbsInt(neg_sum) THEN "increased" ELSE "decreased"

\* the labels argument: None (the default), or a list of region names
LabelLists ==
    {[given |-> FALSE, names |-> <<>>],
     [given |-> TRUE, names |-> <<"Frontal Lobe", "Occipital Lobe">>]}

\* explanations.py:133, 142-156; the body never reads labels
roi_enter ==
    /\ roi_pc = "idle"
    /\ labels' \in LabelLists
    /\ \E shape \in RoiShapes : \E m \in SignedMaps(shape[1], shape[2]) :
          /\ roi_map' = m
          /\ rois' = Rois(shape[1], shape[2])
          /\ LET pos == SumOver(ClipPos(m), DOMAIN m) * MassOne
                 neg == SumOver(ClipNeg(m), DOMAIN m) * MassOne
             IN  roi_totals' = [pos_total |-> IF pos # 0 THEN pos ELSE 1, neg_total |-> neg]
    /\ roi_i' = 1
    /\ results' = <<>>
    /\ roi_pc' = "loop"
    /\ UNCHANGED notRoi

\* explanations.py:159-174, one pass of the loop
roi_region ==
    /\ roi_pc = "loop"
    /\ roi_i <= Len(rois)
    /\ LET roi == rois[roi_i]
           sub == SubRegion(roi_map, roi.bbox)
           pos_sum == SumOver(ClipPos(roi_map), sub) * MassOne
           neg_sum == SumOver(ClipNeg(roi_map), sub) * MassOne
           pos_pct == IF roi_totals.pos_total > 0
                      THEN (pos_sum * 10000) \div roi_totals.pos_total ELSE 0
           neg_pct == IF roi_totals.neg_total < 0
                      THEN (AbsInt(neg_sum) * 10000) \div AbsInt(roi_totals.neg_total) ELSE 0
           direction == Direction(pos_sum, neg_sum)
       IN  results' = Append(results, [name |-> roi.name, bbox |-> roi.bbox,
                                       positivePercent |-> pos_pct,
                                       negativePercent |-> neg_pct,
                                       direction |-> direction])
    /\ roi_i' = roi_i + 1
    /\ UNCHANGED <<roi_pc, roi_map, labels, rois, roi_totals, notRoi>>

\* explanations.py:176-178
roi_return ==
    /\ roi_pc = "loop"
    /\ roi_i > Len(rois)
    /\ results' = SortDesc(results, [i \in 1 .. Len(results) |-> DominantKey(results[i])])
    /\ roi_pc' = "returned"
    /\ UNCHANGED <<roi_map, labels, rois, roi_totals, roi_i, notRoi>>

NextRoi ==
    \/ roi_enter
    \/ roi_region
    \/ roi_return

SpecRoi == Init /\ [][NextRoi]_vars

\* C16: every region's positivePercent and negativePercent is within
\* [0, 100]; a map without positive mass gives positivePercent 0 everywhere
\* and a map without negative mass gives negativePercent 0 everywhere; the
\* returned list is ordered by non-increasing max(positivePercent,
\* negativePercent).
C16_RoiPercentages ==
    roi_pc = "returned" =>
        /\ \A i \in 1 .. Len(results) :
              /\ results[i].positivePercent >= 0 /\ results[i].positivePercent <= 10000
              /\ results[i].negativePercent >= 0 /\ results[i].negativePercent <= 10000
        /\ (\A p \in DOMAIN roi_map : roi_map[p] <= 0) =>
              \A i \in 1 .. Len(results) : results[i].positivePercent = 0
        /\ (\A p \in DOMAIN roi_map : roi_map[p] >= 0) =>
              \A i \in 1 .. Len(results) : results[i].negativePercent = 0
        /\ \A i, j \in 1 .. Len(results) :
              i < j => Max2(results[i].positivePercent, results[i].negativePercent)
                       >= Max2(results[j].positivePercent, results[j].negativePercent)

\* a returned list of the five regions where two regions share the
\* positive mass unequally and the map has no negative mass
C16_Witness ==
    /\ roi_pc = "returned"
    /\ Len(results) = 5
    /\ \A p \in DOMAIN roi_map : roi_map[p] >= 0
    /\ \E i, j \in 1 .. Len(results) :
          /\ i < j
          /\ results[i].positivePercent > results[j].positivePercent
          /\ results[j].positivePercent > 0

\* ---------------------------------------------------------------------
\* The report handler

\* C17: in /report, a ROI aggregation that fails after integrated gradients
\* succeeded is recorded as the ROI stage's own error and leaves the
\* integrated-gradients result, and the occlusion result, as they were when
\* they are passed to the report.
C17_ReportRoiIsolation ==
    (/\ route = "report"
     /\ pc \in {"respond", "done"}
     /\ "compute_roi_contributions" \in raised) =>
        /\ IsError(roi_contrib)
        /\ ig = IGResult(TRUE)
        /\ IsError(occlusion) <=> "compute_occlusion_sensitivity" \in raised
        /\ pc = "done" =>
              /\ response.explanations.integratedGradients = IGResult(TRUE)
              /\ response.explanations.occlusion = occlusion

\* ---------------------------------------------------------------------
\* Order of the stages of a request

\* the stage a handler position belongs to: intake, prediction, saliency,
\* occlusion, attribution, ROI, assembly, ended
Stage(p) ==
    CASE p = "idle" -> 0
      [] p \in {"ensure_model_loaded", "read_upload", "preprocess"} -> 1
      [] p = "model_predict" -> 2
      [] p \in {"gradcam", "input_gradient", "overlay"} -> 3
      [] p = "occlusion" -> 4
      [] p = "integrated_gradients" -> 5
      [] p = "roi" -> 6
      [] p = "respond" -> 7
      [] p \in {"done", "failed"} -> 8

\* the stage a called function belongs to
StageOfCall(f) ==
    CASE f \in {"_load_model", "read_image_to_rgb"} -> 1
      [] f = "MODEL.predict" -> 2
      [] f \in {"make_gradcam_heatmap", "make_input_gradient_heatmap"} -> 3
      [] f = "compute_occlusion_sensitivity" -> 4
      [] f = "compute_integrated_gradients" -> 5
      [] f = "compute_roi_contributions" -> 6
      [] f = "build_html_pdf" -> 7

\* a stage's slot holds its result or its error descriptor
Terminal(slot) == slot.tag \in {"dict", "list"}

\* C18: a request moves through the stages prediction, saliency, occlusion
\* (done or skipped), attribution, ROI, assembly in this order only: every
\* step stays in its stage or enters a later one, so each stage is entered at
\* most once and none after assembly; a stage is entered only when the stage
\* before it has reached its outcome; and a request that reaches assembly
\* has made its calls in stage order, each explanation call at most once.
C18_StageOrder ==
    [][/\ \/ Stage(pc') >= Stage(pc)
          \/ pc \in {"done", "failed"} /\ pc' = "ensure_model_loaded"
       /\ pc = "respond" => pc' \in {"respond", "done", "failed"}
       /\ (Stage(pc') = 3 /\ Stage(pc) # 3) => (Stage(pc) = 2 /\ pred_index' >= 0)
       /\ (Stage(pc') = 4 /\ Stage(pc) # 4) => (Stage(pc) = 3 /\ heatmap' # "unbound")
       /\ (Stage(pc') = 5 /\ Stage(pc) # 5) => (Stage(pc) = 4 /\ Terminal(occlusion'))
       /\ (Stage(pc') = 6 /\ Stage(pc) # 6) => (Stage(pc) = 5 /\ Terminal(ig'))
       /\ (Stage(pc') = 7 /\ Stage(pc) # 7) =>
             /\ Stage(pc) \in {3, 5, 6}
             /\ heatmap' # "unbound"
             /\ Stage(pc) = 3 => (route' = "predict" /\ explanations_level' # "full")
             /\ Stage(pc) = 5 => (route' = "report" /\ IsError(ig'))
             /\ Stage(pc) = 6 => (Terminal(occlusion') /\ Terminal(ig'))
             /\ \A i, j \in 1 .. Len(calls') :
                   i < j => /\ StageOfCall(calls'[i]) <= StageOfCall(calls'[j])
                            /\ calls'[i] \in Explainers => calls'[i] # calls'[j]
      ]_vars

\* a /predict request at level "full" has been answered after the calls of
\* all the stages
C18_Witness ==
    /\ route = "predict"
    /\ pc = "done"
    /\ explanations_level = "full"
    /\ response.kind = "json"
    /\ RanBefore("MODEL.predict", "make_gradcam_heatmap")
    /\ RanBefore("make_gradcam_heatmap", "compute_occlusion_sensitivity")
    /\ RanBefore("compute_occlusion_sensitivity", "compute_integrated_gradients")
    /\ RanBefore("compute_integrated_gradients", "compute_roi_contributions")

\* ---------------------------------------------------------------------
\* Grad-CAM's layer search: _find_base_and_last_conv and the start of
\* make_gradcam_heatmap (gradcam.py).  A layer is what the search reads of
\* it: whether it is a Conv2D, the number of dimensions of its output, and
\* whether reading layer.output_shape raises.

\* bound: largest number of layers of the searched model
MaxLayers == 3

\* a Conv2D has a 4-dimensional output
LayerKinds ==
    {k \in [conv2d : BOOLEAN, rank : {2, 3, 4}, shape_raises : BOOLEAN] :
        k.conv2d => k.rank = 4}

\* search_model.layers
LayerLists == UNION {[1 .. n -> LayerKinds] : n \in 1 .. MaxLayers}

\* isinstance(layer, Conv2D) or len(layer.output_shape) == 4, False when
\* the test raises
Qualifies(layer) == layer.conv2d \/ (~layer.shape_raises /\ layer.rank = 4)

\* gradcam.py:10-16, entered from gradcam.py:39
find_enter ==
    /\ gc_pc = "idle"
    /\ \E ls \in LayerLists :
          /\ layers' = ls
          /\ layer_i' = Len(ls)
    /\ last_conv_layer' = 0
    /\ gc_outcome' = "none"
    /\ gc_pc' = "search"
    /\ UNCHANGED notLayers

\* gradcam.py:17-22, one pass of the loop over reversed(layers)
find_step ==
    /\ gc_pc = "search"
    /\ layer_i >= 1
    /\ IF Qualifies(layers[layer_i])
       THEN /\ last_conv_layer' = layer_i
            /\ gc_pc' = "resolved"
            /\ UNCHANGED layer_i
       ELSE /\ layer_i' = layer_i - 1
            /\ UNCHANGED <<last_conv_layer, gc_pc>>
    /\ UNCHANGED <<layers, gc_outcome, notLayers>>

\* gradcam.py:23, the loop has ended without a return
find_last ==
    /\ gc_pc = "search"
    /\ layer_i = 0
    /\ last_conv_layer' = Len(layers)
    /\ gc_pc' = "resolved"
    /\ UNCHANGED <<layers, layer_i, gc_outcome, notLayers>>

\* gradcam.py:41-59: the gradient may fail; tf.reduce_mean over the axes
\* (0, 1, 2) raises when the layer's output has fewer than 3 dimensions
gradcam_compute ==
    /\ gc_pc = "resolved"
    /\ \/ gc_outcome' = "raised"
       \/ /\ layers[last_conv_layer].rank >= 3
          /\ gc_outcome' = "heatmap"
    /\ gc_pc' = "ended"
    /\ UNCHANGED <<layers, layer_i, last_conv_layer, notLayers>>

NextLayers ==
    \/ find_enter
    \/ find_step
    \/ find_last
    \/ gradcam_compute

SpecLayers == Init /\ [][NextLayers]_vars

\* the layers of the searched model whose output has 4 dimensions
SpatialLayers == {i \in 1 .. Len(layers) : layers[i].rank = 4}

\* C19: when the searched model has no layer with a 4-dimensional output,
\* Grad-CAM ends with an error and produces no heatmap from another layer;
\* when it has such layers, the layer resolved is the one closest to the
\* output.
C19_LayerResolution ==
    gc_pc = "ended" =>
        /\ SpatialLayers = {} => gc_outcome = "raised"
        /\ SpatialLayers # {} =>
              \A i \in SpatialLayers : i <= last_conv_layer /\ last_conv_layer \in SpatialLayers

\* ---------------------------------------------------------------------
\* The class the explanations of a request explain

\* C20: within one request the class index given to Grad-CAM and to the
\* input-gradient fallback, the target index given to integrated gradients,
\* and the predicted index the occlusion scan computes for itself all equal
\* the predicted index of the response, for every model output, tied maxima
\* included.
C20_SameClassExplained ==
    /\ class_index # -1 => class_index = pred_index
    /\ target_index # -1 => target_index = pred_index
    /\ top_idx # -1 => top_idx = pred_index
    /\ Ran("make_gradcam_heatmap") => class_index = pred_index
    /\ Ran("compute_integrated_gradients") => target_index = pred_index
    /\ (Ran("compute_occlusion_sensitivity")
           /\ "compute_occlusion_sensitivity" \notin raised) => top_idx = pred_index
    /\ (pc = "done" /\ response.kind = "json") =>
          /\ response.predicted_index = pred_index
          /\ class_index = response.predicted_index
          /\ Ran("compute_integrated_gradients") => target_index = response.predicted_index
          /\ top_idx # -1 => top_idx = response.predicted_index

\* a response for a model output whose two largest values are tied at the
\* classes 1 and 2, explained by all three explainers
C20_Witness ==
    /\ pc = "done"
    /\ response.kind = "json"
    /\ Len0(preds) >= 3
    /\ preds[0] < preds[1] /\ preds[1] = preds[2] /\ preds[1] = MaxVec(preds)
    /\ response.predicted_index = 1
    /\ class_index = 1
    /\ target_index = 1
    /\ top_idx = 1

\* ---------------------------------------------------------------------
\* Direction of a region

\* the sum of the positive values of the signed map inside a bounding box
PositiveInside(bbox) == SumOver(ClipPos(roi_map), SubRegion(roi_map, bbox))

\* the sum of the negative values of the signed map inside a bounding box
NegativeInside(bbox) == SumOver(ClipNeg(roi_map), SubRegion(roi_map, bbox))

\* C21: the direction of every ROI record is "increased" exactly when the
\* sum of the positive values inside its bounding box is at least the
\* absolute value of the sum of the negative values inside it, and
\* "decreased" otherwise; a region with no mass at all is "increased".
C21_RoiDirection ==
    \A i \in 1 .. Len(results) :
        LET pos == PositiveInside(results[i].bbox)
            neg == NegativeInside(results[i].bbox)
        IN  /\ results[i].direction \in {"increased", "decreased"}
            /\ results[i].direction = "increased" <=> pos >= -neg
            /\ (pos = 0 /\ neg = 0) => results[i].direction = "increased"

\* a returned list with a region without mass and a region whose positive
\* and negative sums balance, both reported as "increased"
C21_Witness ==
    /\ roi_pc = "returned"
    /\ \E i, j \in 1 .. Len(results) :
          /\ PositiveInside(results[i].bbox) = 0 /\ NegativeInside(results[i].bbox) = 0
          /\ results[i].direction = "increased"
          /\ PositiveInside(results[j].bbox) > 0
          /\ PositiveInside(results[j].bbox) = -NegativeInside(results[j].bbox)
          /\ results[j].direction = "increased"

\* ---------------------------------------------------------------------
\* The labels argument of compute_roi_contributions

\* the names of the regions of a result list
ReportedNames == {results[i].name : i \in 1 .. Len(results)}

\* the names of a label list
NamesOf(l) == {l.names[i] : i \in 1 .. Len(l.names)}

\* the names of the five fixed proportional regions
FixedNames == {rois[i].name : i \in 1 .. Len(rois)}

\* C22: the five fixed regions are used only when no label list is supplied;
\* when a list is supplied, the regions of the returned result are the ones
\* the list names.
C22_LabelsSelectRegions ==
    roi_pc = "returned" =>
        IF labels.given
        THEN ReportedNames = NamesOf(labels)
        ELSE ReportedNames = FixedNames

\* ---------------------------------------------------------------------
\* Concurrent requests.  app.run (app.py:320) serves every request in a
\* thread of its own; the threads share the globals MODEL and CLASS_NAMES
\* (app.py:26-27), which ensure_model_loaded (app.py:68-76) reads and assigns
\* without a lock.  A step of a thread is one read or one assignment of a
\* global, together with the local computation that follows it.

Endpoints == {"predict", "report", "health", "metadata"}

\* the files a process can be deployed with: class_names.json and a model of
\* 1 .. NumClasses outputs
Deployments == [class_names : ClassNameFiles, outputs : 1 .. NumClasses]

\* the request of thread t moves to position p
Goto(t, p) == requests' = [requests EXCEPT ![t].at = p]

\* the position of a request once its call of ensure_model_loaded has
\* returned: app.py:84, 103, 115, 218
AfterEnsure(r) == IF r.endpoint \in {"predict", "report"} THEN "pred_label" ELSE "done"

\* the position of a request whose call of ensure_model_loaded has raised:
\* /health and /metadata catch the exception (app.py:85, 99), /predict and
\* /report do not
AfterRaise(r) ==
    CASE r.endpoint = "health" -> "done"
      [] r.endpoint = "metadata" -> "extend"
      [] OTHER -> "failed"

\* a request arrives and is given to a free thread; the first request finds
\* the files the process was deployed with
request_arrives(t) ==
    /\ requests[t].at \in {"idle", "done", "failed"}
    /\ \E e \in Endpoints :
          requests' = [requests EXCEPT ![t] =
              [IdleRequest EXCEPT !.endpoint = e,
                                  !.at = IF e = "metadata" THEN "metadata" ELSE "ensure"]]
    /\ IF deployment = NotDeployed THEN deployment' \in Deployments
       ELSE UNCHANGED deployment
    /\ UNCHANGED <<procVars, loader_runs, model_id, notSrv>>

\* app.py:96: if not CLASS_NAMES
metadata_reads_names(t) ==
    /\ requests[t].at = "metadata"
    /\ Goto(t, IF CLASS_NAMES = <<>> THEN "ensure" ELSE "done")
    /\ UNCHANGED <<procVars, deployment, loader_runs, model_id, notSrv>>

\* app.py:70: if MODEL is None
ensure_reads_model(t) ==
    /\ requests[t].at = "ensure"
    /\ Goto(t, IF MODEL = "None" THEN "load" ELSE AfterEnsure(requests[t]))
    /\ UNCHANGED <<procVars, deployment, loader_runs, model_id, notSrv>>

\* app.py:71, the call: _load_model() raises (app.py:32-33) or returns a new
\* model object
load_model(t) ==
    /\ requests[t].at = "load"
    /\ \/ /\ Goto(t, AfterRaise(requests[t]))
          /\ UNCHANGED loader_runs
       \/ /\ loader_runs' = loader_runs + 1
          /\ requests' = [requests EXCEPT ![t].model = loader_runs + 1, ![t].at = "assign"]
    /\ UNCHANGED <<procVars, deployment, model_id, notSrv>>

\* app.py:71, the assignment: MODEL = <the object the call returned>
assign_model(t) ==
    /\ requests[t].at = "assign"
    /\ MODEL' = "loaded"
    /\ model_id' = requests[t].model
    /\ nClasses' = deployment.outputs
    /\ Goto(t, "names")
    /\ UNCHANGED <<CLASS_NAMES, deployment, loader_runs, notSrv>>

\* app.py:72-76: n_classes is the output size, or 4 when reading it raises
assign_class_names(t) ==
    /\ requests[t].at = "names"
    /\ \E shapeRaises \in BOOLEAN :
          CLASS_NAMES' = load_class_names(deployment.class_names,
                                          IF shapeRaises THEN NumClasses ELSE nClasses)
    /\ Goto(t, AfterEnsure(requests[t]))
    /\ UNCHANGED <<MODEL, nClasses, deployment, loader_runs, model_id, notSrv>>

\* app.py:100-102: CLASS_NAMES.extend(load_class_names(path, num_classes=4))
metadata_extends(t) ==
    /\ requests[t].at = "extend"
    /\ CLASS_NAMES' = CLASS_NAMES \o load_class_names(deployment.class_names, NumClasses)
    /\ Goto(t, "done")
    /\ UNCHANGED <<MODEL, nClasses, deployment, loader_runs, model_id, notSrv>>

\* app.py:114-138 and 217-239: the request ends early (no upload, no image),
\* or the model's output gives pred_index and line 138 reads CLASS_NAMES
read_pred_label(t) ==
    /\ requests[t].at = "pred_label"
    /\ \/ Goto(t, "done")
       \/ \E i \in 0 .. nClasses - 1 :
             requests' = [requests EXCEPT
                 ![t].pred_index = i,
                 ![t].pred_label = Label(CLASS_NAMES, i),
                 ![t].at = "prob_labels"]
    /\ UNCHANGED <<procVars, deployment, loader_runs, model_id, notSrv>>

\* app.py:144-147 and 163-166, 244-247 and 278-281: the labels of the top-2
\* items and of the probabilities list, one for every index of the output
read_prob_labels(t) ==
    /\ requests[t].at = "prob_labels"
    /\ requests' = [requests EXCEPT
           ![t].prob_labels = [i \in 1 .. nClasses |-> Label(CLASS_NAMES, i - 1)],
           ![t].at = "done"]
    /\ UNCHANGED <<procVars, deployment, loader_runs, model_id, notSrv>>

NextSrv ==
    \E t \in Threads :
        \/ request_arrives(t)
        \/ metadata_reads_names(t)
        \/ ensure_reads_model(t)
        \/ load_model(t)
        \/ assign_model(t)
        \/ assign_class_names(t)
        \/ metadata_extends(t)
        \/ read_pred_label(t)
        \/ read_prob_labels(t)

SpecSrv == Init /\ [][NextSrv]_vars

\* C23: under any interleaving of concurrent requests, _load_model() runs at
\* most once per process, and once MODEL has been set it is never replaced by
\* a different handle.
C23_SingleLoad ==
    /\ [](loader_runs <= 1)
    /\ [][model_id # 0 => model_id' = model_id]_vars

\* the class-name lists ensure_model_loaded gives for the deployed files
LoadedNames ==
    {load_class_names(deployment.class_names, n) : n \in {deployment.outputs, NumClasses}}

\* the label of index i is the class name at i wherever a loaded list has one
IsClassName(label, i) ==
    \A names \in LoadedNames : i < Len(names) => label = names[i + 1]

\* C24: under any interleaving of concurrent requests, a request that has
\* returned from ensure_model_loaded with the model loaded reads the class
\* names of that model: its predicted label and every label of its
\* probabilities and top-2 items is the class name at the index, never
\* str(index), whenever the index is within the loaded class-name list.
C24_LabelsAreClassNames ==
    \A t \in Threads :
        LET r == requests[t]
        IN  /\ r.pred_label # <<>> => IsClassName(r.pred_label, r.pred_index)
            /\ \A i \in 1 .. Len(r.prob_labels) : IsClassName(r.prob_labels[i], i - 1)

====
